---- MODULE Spec2Model ----
(***************************************************************************)
(* Burnvelope: one-time secret sharing.                                    *)
(*                                                                         *)
(* The model covers the two server handlers                                *)
(*   POST /api/secrets      (CreateSecret,   src/src/lib/crypto.ts)        *)
(*   GET  /api/secrets/:id  (RetrieveSecret, src/functions/api/secrets/    *)
(*                           [id].ts)                                      *)
(* running against one TTL key-value namespace (SECRETS).  A handler is    *)
(* cut at its awaits on the store and on the crypto calls; between two     *)
(* awaits it runs atomically.  Time is counted in seconds.                 *)
(*                                                                         *)
(*   Spec        handlers interleaved at their awaits                      *)
(*   SpecCreate  POST alone, over every shape of request body              *)
(*   SpecSerial  one request at a time under a moving clock, over every    *)
(*               shape of GET request                                      *)
(*   SpecTamper  one request at a time, over a store whose blobs can be    *)
(*               altered from outside                                      *)
(***************************************************************************)
EXTENDS Integers, Sequences, FiniteSets, TLC

----------------------------------------------------------------------------
(* Bounds of the model *)

\* number of GET /api/secrets/:id invocations
MaxGets == 2
\* number of POST /api/secrets invocations
MaxPosts == 2
\* number of times the clock advances
MaxTicks == 2

(* Program constants *)
MIN_EXPIRATION == 60
MAX_EXPIRATION == 604800
DEFAULT_EXPIRATION == 86400
MAX_PAYLOAD_SIZE == 102400
MIN_ID_LENGTH == 6
MAX_ID_LENGTH == 12
NANOID_SIZE == 8

----------------------------------------------------------------------------
(* JavaScript values: t is the typeof tag, n the numeric value or the       *)
(* length of an array, s the string value ("NaN" marks the number NaN).     *)

JsVal(t, n, s) == [t |-> t, n |-> n, s |-> s]
Undefined == JsVal("undefined", 0, "")
JsNull == JsVal("null", 0, "")
Num(n) == JsVal("number", n, "")
NaN == JsVal("number", 0, "NaN")
Str(s) == JsVal("string", 0, s)
Arr(len) == JsVal("object", len, "array")

IsNaN(x) == x.t = "number" /\ x.s = "NaN"
IsNum(x) == x.t = "number" /\ x.s = ""

\* The strings of the model that are not base64 texts, and their .length
S100K == "<102400 chars>"
S100K1 == "<102401 chars>"
StringLength ==
  [s \in {"", "x", "y", S100K, S100K1, "abc",
          "abcde", "abcdef", "V1StGXR8", "Uakgb_J5", "abcdefghijkl", "abcdefghijklm"} |->
     CASE s = "" -> 0
       [] s \in {"x", "y"} -> 1
       [] s = "abc" -> 3
       [] s = "abcde" -> 5
       [] s = "abcdef" -> 6
       [] s \in {"V1StGXR8", "Uakgb_J5"} -> 8
       [] s = "abcdefghijkl" -> 12
       [] s = "abcdefghijklm" -> 13
       [] s = S100K -> 102400
       [] s = S100K1 -> 102401]

\* !x
Falsy(x) ==
  \/ x.t \in {"undefined", "null"}
  \/ x.t = "string" /\ x.s = ""
  \/ x.t = "number" /\ (IsNaN(x) \/ x.n = 0)
  \/ x.t = "boolean" /\ x.n = 0

\* a ?? b
Nullish(a, b) == IF a.t \in {"undefined", "null"} THEN b ELSE a

\* The implicit ToNumber of Math.min / Math.max
ToNumber(x) ==
  CASE x.t = "number" -> x
    [] x.t = "boolean" -> Num(x.n)
    [] x.t = "null" -> Num(0)
    [] x.t = "string" /\ x.s = "" -> Num(0)
    [] OTHER -> NaN

MathMin(a, b) ==
  LET x == ToNumber(a)
      y == ToNumber(b)
  IN  IF IsNaN(x) \/ IsNaN(y) THEN NaN
      ELSE IF x.n <= y.n THEN x ELSE y

MathMax(a, b) ==
  LET x == ToNumber(a)
      y == ToNumber(b)
  IN  IF IsNaN(x) \/ IsNaN(y) THEN NaN
      ELSE IF x.n >= y.n THEN x ELSE y

----------------------------------------------------------------------------
(* Inputs *)

\* ids nanoid(8) can return
MintIds == {"V1StGXR8", "Uakgb_J5"}
\* the id minted in the runs that take one request at a time: a second
\* creation there reuses the id of the first
SerialIds == {"V1StGXR8"}
\* ids a caller can put in the path of GET /api/secrets/:id
PathIds == MintIds \cup {"", "abcde", "abcdef", "abcdefghijkl", "abcdefghijklm"}

\* values of env.ENCRYPTION_KEY; "" stands for an unset binding
NoKey == ""
MasterKeys == {"k1", "k2"}

\* the environments a handler can be invoked with
Envs ==
  [SECRETS : BOOLEAN, ENCRYPTION_KEY : MasterKeys \cup {NoKey},
   localsKeys : {"runtime"}]

\* request bodies of POST /api/secrets: the shapes of body.encryptedData and
\* of body.expiresIn, each varied against a well-formed other field
EncryptedDataValues ==
  {Undefined, Str(""), Num(7), Arr(102401), Str("x"), Str("y"), Str(S100K), Str(S100K1)}
ExpiresInValues ==
  {Undefined, JsNull, Num(-1), Num(0), Num(59), Num(60), Num(61),
   Num(604800), Num(604801), Num(999999999), Str("abc")}
Body(encryptedData, expiresIn) ==
  [kind |-> "object", encryptedData |-> encryptedData, expiresIn |-> expiresIn]
MalformedBodies ==
  {[kind |-> "invalid", encryptedData |-> Undefined, expiresIn |-> Undefined],
   [kind |-> "null", encryptedData |-> Undefined, expiresIn |-> Undefined]}
Bodies ==
  MalformedBodies
  \cup {Body(d, e) : d \in EncryptedDataValues, e \in {Undefined, Num(3600)}}
  \cup {Body(Str("x"), e) : e \in ExpiresInValues}
\* the bodies of the runs that interleave creation, retrieval and expiry
CoreBodies == {Body(Str("x"), Num(1)), Body(Str("y"), Undefined)}
\* their environment: both bindings set.  Records are created under one master
\* key; a retrieval runs under that key, under another one or under none.
CoreEnvs == {[SECRETS |-> TRUE, ENCRYPTION_KEY |-> "k1", localsKeys |-> "runtime"]}

\* random salt and iv of serverEncrypt
Salts == {"salt1"}
IVs == {"iv1"}

\* by how many seconds one tick advances the clock
TickDeltas == {1, 59, 60}

----------------------------------------------------------------------------
(* Responses: the JSON body {error} | {id, expiresAt} | {encryptedData}    *)
(* with its status.  debug is the interpolated part of an error message.   *)

Response(status, error, debug, id, expiresAt, encryptedData) ==
  [status |-> status, error |-> error, debug |-> debug, id |-> id,
   expiresAt |-> expiresAt, encryptedData |-> encryptedData]
NoResp == Response(0, "", "", "", 0, "")
ErrorResponse(status, error) == Response(status, error, "", "", 0, "")

\* a call that returns v, and a call that throws
Return(v) == [ok |-> TRUE, v |-> v]
Throw == [ok |-> FALSE, v |-> <<>>]
\* a call that throws the error named e
ThrowError(e) == [ok |-> FALSE, v |-> e]

----------------------------------------------------------------------------
(* Server-side encryption, symbolically: a ciphertext opens under the key   *)
(* and iv it was made with, and under no other.                             *)

\* Strings that TextEncoder and TextDecoder do not carry over unchanged: one
\* that begins with U+FEFF, one that is a lone surrogate; U+FFFD replaces it
BomText == "\\uFEFFhunter2"
LoneSurrogate == "\\uD800"
Replacement == "\\uFFFD"
\* new TextEncoder().encode(s): the UTF-8 bytes of s, a lone surrogate
\* encoded as U+FFFD
TextEncode(s) ==
  <<"utf-8", IF s = LoneSurrogate THEN Replacement ELSE s>>
\* new TextDecoder().decode(bytes): the text of the bytes without a leading
\* byte order mark (ignoreBOM is false by default)
TextDecode(bytes) ==
  IF bytes[2] = BomText THEN "hunter2" ELSE bytes[2]

arrayBufferToBase64(bytes) == <<"base64", bytes>>
\* atob throws on text that is not base64; an unset key reads "undefined"
base64ToArrayBuffer(b) ==
  IF b = NoKey THEN ThrowError("InvalidCharacterError") ELSE Return(b)
HKDF(keyMaterial, salt) == <<"hkdf", keyMaterial, salt, "burnvelope-server-encryption">>
AESGCMEncrypt(key, iv, data) == [key |-> key, iv |-> iv, pt |-> data, tag |-> "ok"]
AESGCMDecrypt_noTag(key, iv, ct) ==
  IF ct.key = key /\ ct.iv = iv /\ ct.tag = "ok" THEN Return(ct.pt)
  ELSE Return(TextEncode("<garbled>"))

\* crypto.subtle.decrypt: throws unless the tag verifies under key and iv
AESGCMDecrypt(key, iv, ct) ==
  IF ct.key = key /\ ct.iv = iv /\ ct.tag = "ok" THEN Return(ct.pt)
  ELSE ThrowError("OperationError")

serverEncrypt(data, keyBase64, salt, iv) ==
  LET km == base64ToArrayBuffer(keyBase64)
  IN  IF ~km.ok THEN Throw
      ELSE Return(arrayBufferToBase64(
             [salt |-> salt, iv |-> iv,
              ct |-> AESGCMEncrypt(HKDF(km.v, salt), iv, TextEncode(data))]))

\* the blob is decoded first (atob throws on text that is not base64), then
\* cut into salt, iv and ciphertext with its tag
serverDecrypt_ivOffset(encryptedData, keyBase64) ==
  IF encryptedData[1] # "base64" THEN ThrowError("InvalidCharacterError")
  ELSE LET combined == encryptedData[2]
           km == base64ToArrayBuffer(keyBase64)
       IN  IF ~km.ok THEN km
           ELSE LET decrypted ==
                      AESGCMDecrypt(HKDF(km.v, combined.salt), combined.salt, combined.ct)
                IN  IF ~decrypted.ok THEN decrypted
                    ELSE Return(TextDecode(decrypted.v))

serverDecrypt(encryptedData, keyBase64) ==
  IF encryptedData[1] # "base64" THEN ThrowError("InvalidCharacterError")
  ELSE LET combined == encryptedData[2]
           km == base64ToArrayBuffer(keyBase64)
       IN  IF ~km.ok THEN km
           ELSE LET decrypted ==
                      AESGCMDecrypt(HKDF(km.v, combined.salt), combined.iv, combined.ct)
                IN  IF ~decrypted.ok THEN decrypted
                    ELSE Return(TextDecode(decrypted.v))

JSONstringify(obj) == <<"json", obj>>
JSONparse(text) == text[2]

\* What can happen to a stored blob behind the handlers' back: its text is
\* no longer base64, it is cut short of its tag, or a bit of its salt, of
\* its iv, or of its ciphertext and tag is flipped.
Tamperings == {"notBase64", "truncated", "salt", "iv", "ciphertext"}
Corrupt(blob, how) ==
  CASE how = "notBase64" -> <<"garbage", blob[2]>>
    [] how = "truncated" -> <<blob[1], [blob[2] EXCEPT !.ct.tag = "short"]>>
    [] how = "salt" -> <<blob[1], [blob[2] EXCEPT !.salt = "salt1^"]>>
    [] how = "iv" -> <<blob[1], [blob[2] EXCEPT !.iv = "iv1^"]>>
    [] how = "ciphertext" -> <<blob[1], [blob[2] EXCEPT !.ct.tag = "bad"]>>
\* the blob is as serverEncrypt returned it
Intact(blob) ==
  /\ blob[1] = "base64"
  /\ blob[2].salt \in Salts /\ blob[2].iv \in IVs /\ blob[2].ct.tag = "ok"

----------------------------------------------------------------------------
(* Client-side encryption (the browser's half), symbolically.  A base64     *)
(* text is a string that names the bytes it encodes.                        *)

\* length of the key generateKey makes, in bits
KEY_LENGTH == 256
\* keys generateKey can return: base64url texts of KEY_LENGTH random bits
ClientKeys == {"K1", "K2"}
\* a base64url text of 16 bytes
Key16Bytes == "c2l4dGVlbi1ieXRlLWtleQ"
\* random iv of encrypt
ClientIVs == {"n1", "n2"}
\* secrets a user can type or paste
Plaintexts == {"", "hunter2", BomText, LoneSurrogate}

\* byteLength of what a base64url text decodes to; 0 marks text atob rejects
KeyByteLength ==
  [k \in ClientKeys \cup {Key16Bytes, "c2hvcnQ", "!"} |->
     CASE k \in ClientKeys -> KEY_LENGTH \div 8
       [] k = Key16Bytes -> 16
       [] k = "c2hvcnQ" -> 5
       [] k = "!" -> 0]
base64urlToArrayBuffer(base64url) ==
  IF KeyByteLength[base64url] = 0 THEN ThrowError("InvalidCharacterError")
  ELSE Return(base64url)

\* crypto.subtle.importKey('raw', ...) for AES-GCM: 16, 24 or 32 bytes
importKey(keyBase64url) ==
  LET rawKey == base64urlToArrayBuffer(keyBase64url)
  IN  IF ~rawKey.ok THEN rawKey
      ELSE IF KeyByteLength[keyBase64url] \notin {16, 24, 32} THEN ThrowError("DataError")
      ELSE rawKey

\* IV + ciphertext as base64 text
clientArrayBufferToBase64(combined) ==
  "base64(" \o combined.iv \o "," \o combined.ct.key \o "," \o combined.ct.pt[2] \o ")"
\* the byte strings encrypt can produce
ClientCombined ==
  {[iv |-> iv, ct |-> AESGCMEncrypt(k, iv, TextEncode(p))] :
     iv \in ClientIVs, k \in ClientKeys, p \in Plaintexts}
\* atob: the bytes the text names; throws on any other text
clientBase64ToArrayBuffer(base64) ==
  IF \E c \in ClientCombined : clientArrayBufferToBase64(c) = base64
    THEN Return(CHOOSE c \in ClientCombined : clientArrayBufferToBase64(c) = base64)
  ELSE ThrowError("InvalidCharacterError")

encrypt(plaintext, keyBase64url, iv) ==
  LET key == importKey(keyBase64url)
  IN  IF ~key.ok THEN key
      ELSE Return(clientArrayBufferToBase64(
             [iv |-> iv, ct |-> AESGCMEncrypt(key.v, iv, TextEncode(plaintext))]))

decrypt(ciphertextBase64, keyBase64url) ==
  LET key == importKey(keyBase64url)
      combined == clientBase64ToArrayBuffer(ciphertextBase64)
  IN  IF ~key.ok THEN key
      ELSE IF ~combined.ok THEN combined
      ELSE LET decrypted == AESGCMDecrypt(key.v, combined.v.iv, combined.v.ct)
           IN  IF ~decrypted.ok THEN decrypted
               ELSE Return(TextDecode(decrypted.v))

----------------------------------------------------------------------------
(* The .length of a string or an array *)

\* byteLength of the UTF-8 bytes of the model's plaintexts
Utf8Length ==
  [s \in {TextEncode(p) : p \in Plaintexts} |->
     CASE s[2] = "" -> 0
       [] s[2] = "hunter2" -> 7
       [] s[2] = BomText -> 10
       [] s[2] = Replacement -> 3]
\* btoa: four characters for every three bytes, padded
Base64Length(n) == 4 * ((n + 2) \div 3)

length(x) ==
  IF x.t # "string" THEN x.n
  ELSE IF x.s \in DOMAIN StringLength THEN StringLength[x.s]
  ELSE Base64Length(12 + Utf8Length[clientBase64ToArrayBuffer(x.s).v.ct.pt] + 16)

----------------------------------------------------------------------------
(* POST /api/secrets: the checks before the first store or crypto call *)

CheckBindings_keyOptional(env) ==
  IF ~env.SECRETS
    THEN Response(500, "Server configuration error: KV not bound. Debug: locals keys=",
                  env.localsKeys, "", 0, "")
  ELSE NoResp

CheckBindings_unavailable(env) ==
  IF ~env.SECRETS
    THEN Response(503, "Server configuration error: KV not bound. Debug: locals keys=",
                  env.localsKeys, "", 0, "")
  ELSE IF env.ENCRYPTION_KEY = NoKey
    THEN ErrorResponse(503, "Server configuration error: encryption key not set")
  ELSE NoResp

\* the two binding checks; NoResp when both bindings are there
CheckBindings(env) ==
  IF ~env.SECRETS
    THEN Response(500, "Server configuration error: KV not bound. Debug: locals keys=",
                  env.localsKeys, "", 0, "")
  ELSE IF env.ENCRYPTION_KEY = NoKey
    THEN ErrorResponse(500, "Server configuration error: encryption key not set")
  ELSE NoResp

\* await request.json(): throws on a body that is not JSON
RequestJson(body) == IF body.kind = "invalid" THEN Throw ELSE Return(body)

ValidateEncryptedData_sizeFirst(body) ==
  IF body.kind = "null" \/ body.encryptedData.t \in {"undefined", "null"} THEN Throw
  ELSE IF body.encryptedData.t \in {"string", "object"}
          /\ length(body.encryptedData) > MAX_PAYLOAD_SIZE
    THEN Return(ErrorResponse(413, "Payload too large"))
  ELSE IF Falsy(body.encryptedData) \/ body.encryptedData.t # "string"
    THEN Return(ErrorResponse(400, "Missing or invalid encryptedData"))
  ELSE Return(NoResp)

\* the checks of body.encryptedData; reading a property of null throws
ValidateEncryptedData(body) ==
  IF body.kind = "null" THEN Throw
  ELSE IF Falsy(body.encryptedData) \/ body.encryptedData.t # "string"
    THEN Return(ErrorResponse(400, "Missing or invalid encryptedData"))
  ELSE IF length(body.encryptedData) > MAX_PAYLOAD_SIZE
    THEN Return(ErrorResponse(413, "Payload too large"))
  ELSE Return(NoResp)

ClampExpiration_or(expiresIn) ==
  MathMax(Num(MIN_EXPIRATION),
          MathMin(Num(MAX_EXPIRATION),
                  IF Falsy(expiresIn) THEN Num(DEFAULT_EXPIRATION) ELSE expiresIn))

\* let expiresIn = body.expiresIn ?? DEFAULT; Math.max(MIN, Math.min(MAX, expiresIn))
ClampExpiration(expiresIn) ==
  MathMax(Num(MIN_EXPIRATION),
          MathMin(Num(MAX_EXPIRATION), Nullish(expiresIn, Num(DEFAULT_EXPIRATION))))

PutOptions_ms(expiresIn) ==
  [expirationTtl |-> IF IsNum(expiresIn) THEN Num(expiresIn.n * 1000) ELSE expiresIn]

\* the options of SECRETS.put: { expirationTtl: expiresIn }, in seconds
PutOptions(expiresIn) ==
  [expirationTtl |-> expiresIn]

\* new Date(ms).toISOString(): throws RangeError on an invalid date.  The ISO
\* text of a valid date determines its milliseconds, which stand for it here.
ToISOString(ms) == IF IsNaN(ms) THEN Throw ELSE Return(ms.n)

----------------------------------------------------------------------------
(* GET /api/secrets/:id: the id check *)

ValidIdFormat_offByOne(id) ==
  ~(id = "" \/ StringLength[id] <= MIN_ID_LENGTH \/ StringLength[id] > MAX_ID_LENGTH)

\* !id || id.length < 6 || id.length > 12 is the rejection
ValidIdFormat(id) ==
  ~(id = "" \/ StringLength[id] < MIN_ID_LENGTH \/ StringLength[id] > MAX_ID_LENGTH)

\* `secret:${id}`
Key(id) == <<"secret:", id>>

----------------------------------------------------------------------------
(* The SECRETS namespace: a partial function from keys to records.  A       *)
(* record holds the value, the time of the put and the expirationTtl; rid   *)
(* and req remember the POST invocation that put it and the expiresIn of    *)
(* its request.                                                             *)

\* A record is readable strictly before putAt + ttl and unreadable strictly
\* after; at that very second the store may already have dropped it (gone).
\* A NaN ttl never compares.
Expired(rec, t, gone) ==
  /\ IsNum(rec.ttl)
  /\ \/ t > rec.putAt + rec.ttl.n
     \/ t = rec.putAt + rec.ttl.n /\ gone

\* what SECRETS.get resolves to: null, or the stored text
Null == [null |-> TRUE, text |-> <<"json", <<>>>>]
Text(value) == [null |-> FALSE, text |-> value]

\* SECRETS.get(key): the value, or null when absent or expired
StoreGet(st, key, t, gone) ==
  IF key \in DOMAIN st /\ ~Expired(st[key], t, gone) THEN Text(st[key].value)
  ELSE Null

\* SECRETS.put(key, value, {expirationTtl})
StorePut(st, key, rec) ==
  [k \in DOMAIN st \cup {key} |-> IF k = key THEN rec ELSE st[k]]

StoreDelete_otherKey(st, key) == st

StoreDelete_prefix(st, key) ==
  [k \in {j \in DOMAIN st : j[1] # key[1]} |-> st[k]]

\* SECRETS.delete(key)
StoreDelete(st, key) ==
  [k \in DOMAIN st \ {key} |-> st[k]]

----------------------------------------------------------------------------
(* State *)

VARIABLES
  now,      \* the clock, in seconds; Date.now() is now * 1000
  ticks,    \* how many times the clock has advanced
  store,    \* the SECRETS namespace
  gets,     \* the GET handler invocations
  posts,    \* the POST handler invocations
  hist,     \* per minted id: whether a GET for it has answered 200
  seen,     \* per POST invocation: how many 200 responses carried its record
  made,     \* per POST invocation: the id and encryptedData of the record it
            \* put, and whether it answered 201
  lookup,   \* the store lookup a GET handler completed in the step just taken
  last,     \* the response sent in the step just taken, with its request
  rt,       \* a secret on its way through both encryption layers and back
  form,     \* the CreateForm component
  view,     \* the ViewSecret component and the address it was opened at
  wire      \* the requests the browser has sent, in order

serverVars == <<now, ticks, store, gets, posts, hist, seen, made, lookup, last>>
browserVars == <<form, view, wire>>
clientVars == <<rt, browserVars>>
vars == <<serverVars, clientVars>>

DateNow == now * 1000

NoEnv == [SECRETS |-> FALSE, ENCRYPTION_KEY |-> NoKey, localsKeys |-> ""]
NoBody == [kind |-> "none", encryptedData |-> Undefined, expiresIn |-> Undefined]
NoBlob ==
  arrayBufferToBase64([salt |-> "", iv |-> "", ct |-> AESGCMEncrypt("", "", TextEncode(""))])
NoStored == [data |-> NoBlob, createdAt |-> 0]

\* what a handler invocation did to the store
NoFx == [gets |-> 0, deletes |-> 0, puts |-> 0, removed |-> FALSE,
         written |-> FALSE, ttl |-> Undefined]

IdleGet ==
  [pc |-> "idle", id |-> "", env |-> NoEnv, stored |-> NoStored, rid |-> 0,
   after200 |-> FALSE, fx |-> NoFx]
DoneGet == [IdleGet EXCEPT !.pc = "done"]

IdlePost ==
  [pc |-> "idle", env |-> NoEnv, body |-> NoBody, expiresIn |-> Undefined, id |-> "",
   storageData |-> NoStored, fx |-> NoFx]
DonePost == [IdlePost EXCEPT !.pc = "done"]

NoHist == [ok200 |-> FALSE]
NoMade == [id |-> "", d |-> "", returned |-> FALSE]
NoRecord == [value |-> JSONstringify(NoStored), putAt |-> 0, ttl |-> Undefined, rid |-> 0,
   req |-> Undefined]
\* a lookup: when, whether the key held a record and which, what came back
NoLookup ==
  [id |-> "", at |-> 0, present |-> FALSE, rec |-> NoRecord,
   found |-> FALSE, status |-> 0]
NoLast ==
  [op |-> "none", env |-> NoEnv, id |-> "", body |-> NoBody,
   resp |-> NoResp, fx |-> NoFx, after200 |-> FALSE, rid |-> 0,
   stored |-> NoStored]

NoRoundTrip ==
  [stage |-> "none", p |-> "", k |-> "", m |-> "", c |-> Return(""),
   stored |-> Return(NoBlob), out |-> Return("")]

InitServer ==
  /\ now = 0
  /\ ticks = 0
  /\ store = [k \in {} |-> NoStored]
  /\ gets = [g \in 1..MaxGets |-> IdleGet]
  /\ posts = [p \in 1..MaxPosts |-> IdlePost]
  /\ hist = [i \in MintIds |-> NoHist]
  /\ seen = [p \in 1..MaxPosts |-> 0]
  /\ made = [p \in 1..MaxPosts |-> NoMade]
  /\ lookup = NoLookup
  /\ last = NoLast

\* window.location and a share link: path segments, query, and the hash
\* ("#" and the fragment, or nothing)
NoUrl == [pathname |-> <<>>, search |-> <<>>, hash |-> <<>>]

\* CreateForm before any input; clientKey and encryptedData are the locals
\* of handleSubmit
IdleForm ==
  [state |-> "idle", secret |-> "", expiresIn |-> DEFAULT_EXPIRATION, clientKey |-> "",
   encryptedData |-> "", shareUrl |-> NoUrl, error |-> ""]
\* no page is open; ticks counts the firings of the one-second interval and
\* fetches the fetch calls since the mount
Unmounted ==
  [state |-> "unmounted", secretId |-> "", location |-> NoUrl, timer |-> FALSE,
   countdown |-> 0, ticks |-> 0, fetches |-> 0, secret |-> "", error |-> ""]

InitBrowser ==
  /\ form = IdleForm
  /\ view = Unmounted
  /\ wire = <<>>

Init ==
  /\ InitServer
  /\ rt = NoRoundTrip
  /\ InitBrowser

\* a step that sends no response / completes no lookup
NoResponse == last' = NoLast
NoLookupDone == lookup' = NoLookup

----------------------------------------------------------------------------
(* The clock *)

Tick(d) ==
  /\ ticks < MaxTicks
  /\ now' = now + d
  /\ ticks' = ticks + 1
  /\ NoResponse /\ NoLookupDone
  /\ UNCHANGED <<store, gets, posts, hist, seen, made>>
  /\ UNCHANGED clientVars

----------------------------------------------------------------------------
(* GET /api/secrets/:id *)

GetResponds(g, h, resp) ==
  /\ gets' = [gets EXCEPT ![g] = DoneGet]
  /\ last' = [op |-> "GET", env |-> h.env,
              id |-> h.id, body |-> NoBody, resp |-> resp, fx |-> h.fx,
              after200 |-> h.after200, rid |-> h.rid, stored |-> h.stored]

GetCatch == ErrorResponse(500, "Failed to retrieve secret")

GetCatchError_message(error) == ErrorResponse(500, error)

\* catch (error): the error is logged, the response does not depend on it
GetCatchError(error) ==
  GetCatch

\* the request arrives: the id check, then SECRETS.get is called
GetStart(g, id, SECRETS) ==
  /\ gets[g].pc = "idle"
  /\ \A f \in 1..(g - 1) : gets[f].pc # "idle"
  /\ LET h == [IdleGet EXCEPT !.id = id, !.env.SECRETS = SECRETS,
                              !.after200 = (id \in MintIds /\ hist[id].ok200)]
     IN  IF ~ValidIdFormat(id)
           THEN GetResponds(g, h, ErrorResponse(400, "Invalid secret ID"))
         ELSE IF ~SECRETS
           THEN GetResponds(g, h, GetCatch)
         ELSE /\ gets' = [gets EXCEPT ![g] = [h EXCEPT !.pc = "get"]]
              /\ NoResponse
  /\ NoLookupDone
  /\ UNCHANGED <<now, ticks, store, posts, hist, seen, made>>
  /\ UNCHANGED clientVars

GetLookup_retry(g, storeOk, gone) ==
  /\ gets[g].pc = "get"
  /\ LET h == [gets[g] EXCEPT !.fx.gets = @ + 1]
         k == Key(h.id)
         r == StoreGet(store, k, now, gone)
     IN  IF ~storeOk
           THEN /\ gets' = [gets EXCEPT ![g] = h]
                /\ NoResponse
         ELSE IF r.null
           THEN GetResponds(g, h, ErrorResponse(404, "Secret not found or already viewed"))
         ELSE /\ gets' = [gets EXCEPT ![g] =
                            [h EXCEPT !.pc = "delete", !.stored = JSONparse(r.text),
                                      !.rid = store[Key(h.id)].rid]]
              /\ NoResponse
  /\ NoLookupDone
  /\ UNCHANGED <<now, ticks, store, posts, hist, seen, made>>
  /\ UNCHANGED clientVars

\* SECRETS.get answers (or throws); 404 on null, else JSON.parse and
\* SECRETS.delete is called
GetLookup(g, storeOk, gone) ==
  /\ gets[g].pc = "get"
  /\ LET h == [gets[g] EXCEPT !.fx.gets = @ + 1]
         k == Key(h.id)
         r == StoreGet(store, k, now, gone)
         lk == [id |-> h.id, at |-> now, present |-> k \in DOMAIN store,
                rec |-> IF k \in DOMAIN store THEN store[k] ELSE NoRecord,
                found |-> ~r.null, status |-> IF r.null THEN 404 ELSE 0]
     IN  IF ~storeOk
           THEN /\ GetResponds(g, h, GetCatch)
                /\ NoLookupDone
         ELSE IF r.null
           THEN /\ GetResponds(g, h, ErrorResponse(404, "Secret not found or already viewed"))
                /\ lookup' = lk
         ELSE /\ gets' = [gets EXCEPT ![g] =
                            [h EXCEPT !.pc = "delete", !.stored = JSONparse(r.text),
                                      !.rid = store[Key(h.id)].rid]]
              /\ lookup' = lk
              /\ NoResponse
  /\ UNCHANGED <<now, ticks, store, posts, hist, seen, made>>
  /\ UNCHANGED clientVars

\* SECRETS.delete answers (or throws); then serverDecrypt is called
GetDelete(g, storeOk) ==
  /\ gets[g].pc = "delete"
  /\ LET h == [gets[g] EXCEPT !.fx.deletes = @ + 1]
         k == Key(h.id)
     IN  IF ~storeOk
           THEN /\ UNCHANGED store
                /\ GetResponds(g, h, GetCatch)
         ELSE /\ store' = StoreDelete(store, k)
              /\ gets' = [gets EXCEPT ![g] =
                            [h EXCEPT !.pc = "decrypt",
                                      !.fx.removed = (k \in DOMAIN store)]]
              /\ NoResponse
  /\ NoLookupDone
  /\ UNCHANGED <<now, ticks, posts, hist, seen, made>>
  /\ UNCHANGED clientVars

\* serverDecrypt answers (or throws): 200 with the client's ciphertext
GetDecrypt(g, ENCRYPTION_KEY) ==
  /\ gets[g].pc = "decrypt"
  /\ UNCHANGED <<now, ticks, store, posts, made>>
  /\ UNCHANGED clientVars
  /\ LET h == [gets[g] EXCEPT !.env.ENCRYPTION_KEY = ENCRYPTION_KEY]
         d == serverDecrypt(h.stored.data, ENCRYPTION_KEY)
     IN  IF d.ok
           THEN /\ GetResponds(g, h, Response(200, "", "", "", 0, d.v))
                /\ seen' = [seen EXCEPT ![h.rid] = @ + 1]
                /\ hist' = [hist EXCEPT ![h.id].ok200 = TRUE]
           ELSE /\ GetResponds(g, h, GetCatchError(d.v))
                /\ UNCHANGED <<seen, hist>>
  /\ NoLookupDone

----------------------------------------------------------------------------
(* POST /api/secrets *)

PostResponds(p, h, resp) ==
  /\ posts' = [posts EXCEPT ![p] = DonePost]
  /\ last' = [op |-> "POST", env |-> h.env, id |-> h.id, body |-> h.body,
              resp |-> resp, fx |-> h.fx, after200 |-> FALSE, rid |-> p,
              stored |-> h.storageData]

PostCatch == ErrorResponse(500, "Failed to create secret")

\* the request arrives: the binding checks, the body, the checks of
\* encryptedData, the clamp of expiresIn, nanoid(8); then serverEncrypt is called
PostStart(p, env, body, id) ==
  /\ posts[p].pc = "idle"
  /\ \A q \in 1..(p - 1) : posts[q].pc # "idle"
  /\ LET h == [IdlePost EXCEPT !.env = env, !.body = body]
         c == CheckBindings(env)
         j == RequestJson(body)
         v == ValidateEncryptedData(body)
     IN  IF c # NoResp THEN PostResponds(p, h, c)
         ELSE IF ~j.ok THEN PostResponds(p, h, PostCatch)
         ELSE IF ~v.ok THEN PostResponds(p, h, PostCatch)
         ELSE IF v.v # NoResp THEN PostResponds(p, h, v.v)
         ELSE /\ posts' = [posts EXCEPT ![p] =
                             [h EXCEPT !.pc = "encrypt", !.id = id,
                                       !.expiresIn = ClampExpiration(body.expiresIn)]]
              /\ NoResponse
  /\ NoLookupDone
  /\ UNCHANGED <<now, ticks, store, gets, hist, seen, made>>
  /\ UNCHANGED clientVars

\* serverEncrypt answers (or throws); storageData takes Date.now(); then
\* SECRETS.put is called
PostEncrypt(p, salt, iv) ==
  /\ posts[p].pc = "encrypt"
  /\ LET h == posts[p]
         e == serverEncrypt(h.body.encryptedData.s, h.env.ENCRYPTION_KEY, salt, iv)
     IN  IF ~e.ok
           THEN PostResponds(p, h, PostCatch)
           ELSE /\ posts' = [posts EXCEPT ![p] =
                               [h EXCEPT !.pc = "put",
                                         !.storageData = [data |-> e.v, createdAt |-> DateNow]]]
                /\ NoResponse
  /\ NoLookupDone
  /\ UNCHANGED <<now, ticks, store, gets, hist, seen, made>>
  /\ UNCHANGED clientVars

PostPut_notAwaited(p, storeOk) ==
  /\ posts[p].pc = "put"
  /\ LET o == PutOptions(posts[p].expiresIn)
         h == [posts[p] EXCEPT !.fx.puts = @ + 1, !.fx.ttl = o.expirationTtl]
     IN  IF ~storeOk
           THEN /\ UNCHANGED <<store, made>>
                /\ posts' = [posts EXCEPT ![p] = [h EXCEPT !.pc = "respond"]]
                /\ NoResponse
           ELSE /\ made' = [made EXCEPT ![p].id = h.id, ![p].d = h.body.encryptedData.s]
                /\ store' = StorePut(store, Key(h.id),
                                     [value |-> JSONstringify(h.storageData),
                                      putAt |-> now, ttl |-> o.expirationTtl, rid |-> p,
                                      req |-> h.body.expiresIn])
                /\ posts' = [posts EXCEPT ![p] = [h EXCEPT !.pc = "respond", !.fx.written = TRUE]]
                /\ NoResponse
  /\ NoLookupDone
  /\ UNCHANGED <<now, ticks, gets, hist, seen>>
  /\ UNCHANGED clientVars

\* SECRETS.put answers (or throws, writing nothing)
PostPut(p, storeOk) ==
  /\ posts[p].pc = "put"
  /\ LET o == PutOptions(posts[p].expiresIn)
         h == [posts[p] EXCEPT !.fx.puts = @ + 1, !.fx.ttl = o.expirationTtl]
     IN  IF ~storeOk
           THEN /\ UNCHANGED <<store, made>>
                /\ PostResponds(p, h, PostCatch)
           ELSE /\ made' = [made EXCEPT ![p].id = h.id, ![p].d = h.body.encryptedData.s]
                /\ store' = StorePut(store, Key(h.id),
                                     [value |-> JSONstringify(h.storageData),
                                      putAt |-> now, ttl |-> o.expirationTtl, rid |-> p,
                                      req |-> h.body.expiresIn])
                /\ posts' = [posts EXCEPT ![p] = [h EXCEPT !.pc = "respond", !.fx.written = TRUE]]
                /\ NoResponse
  /\ NoLookupDone
  /\ UNCHANGED <<now, ticks, gets, hist, seen>>
  /\ UNCHANGED clientVars

\* new Date(Date.now() + expiresIn * 1000).toISOString(), then 201
PostRespond(p) ==
  /\ posts[p].pc = "respond"
  /\ UNCHANGED <<now, ticks, store, gets, hist, seen>>
  /\ UNCHANGED clientVars
  /\ LET h == posts[p]
         ms == IF IsNaN(h.expiresIn) THEN NaN ELSE Num(DateNow + h.expiresIn.n * 1000)
         iso == ToISOString(ms)
     IN  IF ~iso.ok
           THEN /\ PostResponds(p, h, PostCatch)
                /\ UNCHANGED made
           ELSE /\ PostResponds(p, h, Response(201, "", "", h.id, iso.v, ""))
                /\ made' = [made EXCEPT ![p].returned = TRUE]
  /\ NoLookupDone

----------------------------------------------------------------------------
(* The store's content altered from outside *)

Tamper(id, how) ==
  /\ Key(id) \in DOMAIN store
  /\ LET rec == store[Key(id)]
         stored == JSONparse(rec.value)
     IN  /\ Intact(stored.data)
         /\ store' = [store EXCEPT ![Key(id)].value =
                        JSONstringify([stored EXCEPT !.data = Corrupt(stored.data, how)])]
  /\ NoResponse /\ NoLookupDone
  /\ UNCHANGED <<now, ticks, gets, posts, hist, seen, made>>
  /\ UNCHANGED clientVars

----------------------------------------------------------------------------
(* The browser: share links, the requests it sends, CreateForm, ViewSecret *)

REVEAL_DELAY == 3000
EXPIRATION_OPTIONS == {3600, 86400, 259200, 604800}

\* null of getKeyFromHash
NullKey == ""

isValidKey_anyLength(key) ==
  base64urlToArrayBuffer(key).ok

isValidKey(key) ==
  LET buffer == base64urlToArrayBuffer(key)
  IN  buffer.ok /\ KeyByteLength[key] = 32

getKeyFromHash(hash) ==
  IF Len(hash) < 2 THEN NullKey
  ELSE LET key == hash[2]
       IN  IF isValidKey(key) THEN key ELSE NullKey

createShareUrl_query(id, key) ==
  [pathname |-> <<"view", id>>, search |-> <<"?", key>>, hash |-> <<>>]

\* `${baseUrl}/view/${id}#${key}`
createShareUrl(id, key) ==
  [pathname |-> <<"view", id>>, search |-> <<>>, hash |-> <<"#", key>>]

\* a request as the server receives it
Request(method, pathname, search, body) ==
  [method |-> method, pathname |-> pathname, search |-> search, body |-> body]
\* opening an address: the browser sends path and query, never the hash
Navigation(url) == Request("GET", url.pathname, url.search, NoBody)
\* fetch('/api/secrets', {method: 'POST', body: JSON.stringify({encryptedData, expiresIn})})
CreateRequest(encryptedData, expiresIn) ==
  Request("POST", <<"api", "secrets">>, <<>>, Body(Str(encryptedData), Num(expiresIn)))
\* fetch(`/api/secrets/${secretId}`)
RevealRequest(secretId) ==
  Request("GET", <<"api", "secrets", secretId>>, <<>>, NoBody)

\* the requests on the wire that call the API with the given method
ApiCalls(method) ==
  SelectSeq(wire, LAMBDA r : r.method = method /\ Len(r.pathname) >= 2
                             /\ r.pathname[1] = "api")
PostsTaken == Cardinality({p \in 1..MaxPosts : posts[p].pc # "idle"})
GetsTaken == Cardinality({g \in 1..MaxGets : gets[g].pc # "idle"})

\* secret.trim(): white space and U+FEFF go
Trim(s) == IF s = BomText THEN "hunter2" ELSE s
Ok_anyStatus(resp) == resp.status \in 200..599

\* response.ok
Ok(resp) ==
  resp.status \in 200..299

\* a step of the browser: the server stands still and sends nothing
ServerIdle ==
  /\ NoResponse /\ NoLookupDone
  /\ UNCHANGED <<now, ticks, store, gets, posts, hist, seen, made, rt>>

\* handleSubmit up to its first await
FormSubmit(secret, expiresIn) ==
  /\ form.state \in {"idle", "error"}
  /\ Len(ApiCalls("POST")) < MaxPosts
  /\ IF Trim(secret) = ""
       THEN form' = [form EXCEPT !.secret = secret, !.expiresIn = expiresIn,
                                 !.error = "Please enter a secret to share"]
     ELSE form' = [form EXCEPT !.secret = secret, !.expiresIn = expiresIn,
                               !.error = "", !.state = "encrypting"]
  /\ UNCHANGED <<view, wire>>
  /\ ServerIdle

\* generateKey, encrypt, and the fetch of the POST
FormEncrypt(key, iv) ==
  /\ form.state = "encrypting"
  /\ LET encryptedData == encrypt(form.secret, key, iv)
     IN  IF ~encryptedData.ok
           THEN /\ form' = [form EXCEPT !.state = "error", !.error = encryptedData.v,
                                        !.clientKey = key]
                /\ UNCHANGED wire
         ELSE /\ form' = [form EXCEPT !.state = "sending", !.clientKey = key,
                                      !.encryptedData = encryptedData.v]
              /\ wire' = Append(wire, CreateRequest(encryptedData.v, form.expiresIn))
  /\ UNCHANGED view
  /\ ServerIdle

\* the response of the POST arrives: what the fetch of this call resolves to,
\* the answer to the POST the form sent last
FormReceive ==
  /\ form.state = "sending"
  /\ last.op = "POST"
  /\ PostsTaken = Len(ApiCalls("POST"))
  /\ IF ~Ok(last.resp)
       THEN form' = [form EXCEPT !.state = "error", !.error = last.resp.error]
     ELSE form' = [form EXCEPT !.state = "success",
                               !.shareUrl = createShareUrl(last.resp.id, form.clientKey)]
  /\ UNCHANGED <<view, wire>>
  /\ ServerIdle

\* fetch rejects
FormFetchFails ==
  /\ form.state = "sending"
  /\ form' = [form EXCEPT !.state = "error", !.error = "Failed to fetch"]
  /\ UNCHANGED <<view, wire>>
  /\ ServerIdle

FormReset ==
  /\ form.state = "success"
  /\ form' = [form EXCEPT !.state = "idle", !.secret = "", !.shareUrl = NoUrl, !.error = ""]
  /\ UNCHANGED <<view, wire>>
  /\ ServerIdle

\* the links a recipient can open: the share link, the link without its
\* fragment, the link with a fragment of 16 bytes, cut short or garbled
Links ==
  IF form.state # "success" THEN {}
  ELSE {form.shareUrl, [form.shareUrl EXCEPT !.hash = <<>>],
        [form.shareUrl EXCEPT !.hash = <<"#", Key16Bytes>>],
        [form.shareUrl EXCEPT !.hash = <<"#", "c2hvcnQ">>],
        [form.shareUrl EXCEPT !.hash = <<"#", "!">>]}

\* the page /view/:id is requested and ViewSecret renders for the first time
ViewOpen(url) ==
  /\ Len(SelectSeq(wire, LAMBDA r : r.pathname[1] = "view")) < MaxGets
  /\ wire' = Append(wire, Navigation(url))
  /\ view' = [Unmounted EXCEPT !.state = "loading", !.secretId = url.pathname[2],
                               !.location = url, !.countdown = REVEAL_DELAY \div 1000]
  /\ UNCHANGED form
  /\ ServerIdle

\* the effect on mount: the key check, then the 500 ms timer
ViewMount ==
  /\ view.state = "loading" /\ ~view.timer
  /\ IF getKeyFromHash(view.location.hash) = NullKey
       THEN view' = [view EXCEPT !.state = "invalid_key"]
     ELSE view' = [view EXCEPT !.timer = TRUE]
  /\ UNCHANGED <<form, wire>>
  /\ ServerIdle

ViewTimer ==
  /\ view.state = "loading" /\ view.timer
  /\ view' = [view EXCEPT !.state = "ready", !.timer = FALSE]
  /\ UNCHANGED <<form, wire>>
  /\ ServerIdle

\* one tick of the one-second interval
ViewCountdown ==
  /\ view.state = "ready" /\ view.countdown > 0
  /\ view' = [view EXCEPT !.countdown = IF @ <= 1 THEN 0 ELSE @ - 1,
                           !.ticks = @ + 1]
  /\ UNCHANGED <<form, wire>>
  /\ ServerIdle

CanReveal_noDelay ==
  /\ view.state \in {"ready", "revealing"}
  /\ view.state # "revealing"

CanReveal_whileRevealing ==
  /\ view.state \in {"ready", "revealing"}
  /\ view.countdown = 0

\* the reveal button is there in 'ready' and 'revealing' and enabled when the
\* countdown is 0 and the state is not 'revealing'
CanReveal ==
  /\ view.state \in {"ready", "revealing"}
  /\ view.countdown = 0 /\ view.state # "revealing"

\* handleReveal up to the fetch of the GET
ViewReveal ==
  /\ CanReveal
  /\ IF getKeyFromHash(view.location.hash) = NullKey
       THEN /\ view' = [view EXCEPT !.state = "invalid_key"]
            /\ UNCHANGED wire
     ELSE /\ view' = [view EXCEPT !.state = "revealing", !.fetches = @ + 1]
          /\ wire' = Append(wire, RevealRequest(view.secretId))
  /\ UNCHANGED form
  /\ ServerIdle

\* the response of the GET arrives: what the fetch of this call resolves to,
\* the answer to the GET the page sent last; decrypt
ViewReceive ==
  /\ view.state = "revealing"
  /\ last.op = "GET"
  /\ GetsTaken = Len(ApiCalls("GET"))
  /\ IF last.resp.status = 404
       THEN view' = [view EXCEPT !.state = "not_found"]
     ELSE IF ~Ok(last.resp)
       THEN view' = [view EXCEPT !.state = "error", !.error = last.resp.error]
     ELSE LET decrypted ==
                decrypt(last.resp.encryptedData, getKeyFromHash(view.location.hash))
          IN  IF ~decrypted.ok
                THEN view' = [view EXCEPT !.state = "error", !.error = decrypted.v]
              ELSE view' = [view EXCEPT !.state = "revealed", !.secret = decrypted.v]
  /\ UNCHANGED <<form, wire>>
  /\ ServerIdle

ViewFetchFails ==
  /\ view.state = "revealing"
  /\ view' = [view EXCEPT !.state = "error", !.error = "Failed to fetch"]
  /\ UNCHANGED <<form, wire>>
  /\ ServerIdle

----------------------------------------------------------------------------
(* The system: creation and retrieval interleaved at their awaits *)

Next ==
  \/ \E g \in 1..MaxGets, id \in PathIds, SECRETS \in BOOLEAN : GetStart(g, id, SECRETS)
  \/ \E g \in 1..MaxGets, storeOk \in BOOLEAN, gone \in BOOLEAN : GetLookup(g, storeOk, gone)
  \/ \E g \in 1..MaxGets, storeOk \in BOOLEAN : GetDelete(g, storeOk)
  \/ \E g \in 1..MaxGets, key \in MasterKeys \cup {NoKey} : GetDecrypt(g, key)
  \/ \E p \in 1..MaxPosts, env \in CoreEnvs, body \in CoreBodies, id \in MintIds :
       PostStart(p, env, body, id)
  \/ \E p \in 1..MaxPosts, salt \in Salts, iv \in IVs : PostEncrypt(p, salt, iv)
  \/ \E p \in 1..MaxPosts, storeOk \in BOOLEAN : PostPut(p, storeOk)
  \/ \E p \in 1..MaxPosts : PostRespond(p)

Spec == Init /\ [][Next]_vars

(* Creation alone, over every shape of request body, one request at a time *)

NoPostInFlight == \A q \in 1..MaxPosts : posts[q].pc \in {"idle", "done"}
NoGetInFlight == \A f \in 1..MaxGets : gets[f].pc \in {"idle", "done"}
NoRequestInFlight == NoPostInFlight /\ NoGetInFlight

StartPost(p, env, body, id) == NoPostInFlight /\ PostStart(p, env, body, id)

NextCreate ==
  \/ \E p \in 1..MaxPosts, env \in Envs, body \in Bodies, id \in SerialIds :
       StartPost(p, env, body, id)
  \/ \E p \in 1..MaxPosts, salt \in Salts, iv \in IVs : PostEncrypt(p, salt, iv)
  \/ \E p \in 1..MaxPosts, storeOk \in BOOLEAN : PostPut(p, storeOk)
  \/ \E p \in 1..MaxPosts : PostRespond(p)

SpecCreate == Init /\ [][NextCreate]_vars

(* One request at a time, under a moving clock *)

SerialGet(g, id, SECRETS) == NoRequestInFlight /\ GetStart(g, id, SECRETS)
SerialPost(p, env, body, id) == NoRequestInFlight /\ PostStart(p, env, body, id)

NextSerial ==
  \/ \E d \in TickDeltas : Tick(d)
  \/ \E g \in 1..MaxGets, id \in PathIds, SECRETS \in BOOLEAN : SerialGet(g, id, SECRETS)
  \/ \E g \in 1..MaxGets, storeOk \in BOOLEAN, gone \in BOOLEAN : GetLookup(g, storeOk, gone)
  \/ \E g \in 1..MaxGets, storeOk \in BOOLEAN : GetDelete(g, storeOk)
  \/ \E g \in 1..MaxGets, key \in MasterKeys \cup {NoKey} : GetDecrypt(g, key)
  \/ \E p \in 1..MaxPosts, env \in CoreEnvs, body \in CoreBodies, id \in SerialIds :
       SerialPost(p, env, body, id)
  \/ \E p \in 1..MaxPosts, salt \in Salts, iv \in IVs : PostEncrypt(p, salt, iv)
  \/ \E p \in 1..MaxPosts, storeOk \in BOOLEAN : PostPut(p, storeOk)
  \/ \E p \in 1..MaxPosts : PostRespond(p)

SpecSerial == Init /\ [][NextSerial]_vars

(* One request at a time, over a store whose blobs can be altered *)

NextTamper ==
  \/ \E id \in SerialIds, how \in Tamperings : Tamper(id, how)
  \/ \E g \in 1..MaxGets, id \in SerialIds : SerialGet(g, id, TRUE)
  \/ \E g \in 1..MaxGets, storeOk \in BOOLEAN, gone \in BOOLEAN : GetLookup(g, storeOk, gone)
  \/ \E g \in 1..MaxGets, storeOk \in BOOLEAN : GetDelete(g, storeOk)
  \/ \E g \in 1..MaxGets, key \in MasterKeys \cup {NoKey} : GetDecrypt(g, key)
  \/ \E p \in 1..MaxPosts, env \in CoreEnvs, body \in CoreBodies, id \in SerialIds :
       SerialPost(p, env, body, id)
  \/ \E p \in 1..MaxPosts, salt \in Salts, iv \in IVs : PostEncrypt(p, salt, iv)
  \/ \E p \in 1..MaxPosts, storeOk \in BOOLEAN : PostPut(p, storeOk)
  \/ \E p \in 1..MaxPosts : PostRespond(p)

SpecTamper == Init /\ [][NextTamper]_vars

(* Retrievals racing each other, between creations that run one at a time;  *)
(* every retrieval decrypts under the master key of the creations.          *)

\* a creation that ends in each of its responses
RaceEnvs ==
  CoreEnvs \cup {[SECRETS |-> FALSE, ENCRYPTION_KEY |-> "k1", localsKeys |-> "runtime"],
                 [SECRETS |-> TRUE, ENCRYPTION_KEY |-> NoKey, localsKeys |-> "runtime"]}
RaceBodies ==
  CoreBodies \cup {Body(Undefined, Undefined), Body(Str(S100K1), Undefined)}
             \cup MalformedBodies

RaceGet(g, id, SECRETS) == NoPostInFlight /\ GetStart(g, id, SECRETS)

NextRace ==
  \/ \E g \in 1..MaxGets, id \in PathIds, SECRETS \in BOOLEAN : RaceGet(g, id, SECRETS)
  \/ \E g \in 1..MaxGets, storeOk \in BOOLEAN, gone \in BOOLEAN : GetLookup(g, storeOk, gone)
  \/ \E g \in 1..MaxGets, storeOk \in BOOLEAN : GetDelete(g, storeOk)
  \/ \E g \in 1..MaxGets, env \in CoreEnvs : GetDecrypt(g, env.ENCRYPTION_KEY)
  \/ \E p \in 1..MaxPosts, env \in RaceEnvs, body \in RaceBodies, id \in MintIds :
       SerialPost(p, env, body, id)
  \/ \E p \in 1..MaxPosts, salt \in Salts, iv \in IVs : PostEncrypt(p, salt, iv)
  \/ \E p \in 1..MaxPosts, storeOk \in BOOLEAN : PostPut(p, storeOk)
  \/ \E p \in 1..MaxPosts : PostRespond(p)

SpecRace == Init /\ [][NextRace]_vars

(* A secret through both layers: the browser encrypts it, the POST handler's *)
(* serverEncrypt wraps it, the GET handler's serverDecrypt unwraps it under  *)
(* the same master key, the browser decrypts it under the same client key.  *)

InitCrypto ==
  /\ InitServer
  /\ InitBrowser
  /\ rt \in {[NoRoundTrip EXCEPT !.stage = "plain", !.p = p, !.k = k, !.m = m] :
              p \in Plaintexts, k \in ClientKeys, m \in MasterKeys}

ClientEncrypt(iv) ==
  /\ rt.stage = "plain"
  /\ rt' = [rt EXCEPT !.stage = "encrypted", !.c = encrypt(rt.p, rt.k, iv)]
  /\ UNCHANGED <<serverVars, browserVars>>

ServerEncrypt(salt, iv) ==
  /\ rt.stage = "encrypted" /\ rt.c.ok
  /\ rt' = [rt EXCEPT !.stage = "stored", !.stored = serverEncrypt(rt.c.v, rt.m, salt, iv)]
  /\ UNCHANGED <<serverVars, browserVars>>

ServerDecrypt ==
  /\ rt.stage = "stored" /\ rt.stored.ok
  /\ rt' = [rt EXCEPT !.stage = "fetched", !.c = serverDecrypt(rt.stored.v, rt.m)]
  /\ UNCHANGED <<serverVars, browserVars>>

ClientDecrypt ==
  /\ rt.stage = "fetched" /\ rt.c.ok
  /\ rt' = [rt EXCEPT !.stage = "decrypted", !.out = decrypt(rt.c.v, rt.k)]
  /\ UNCHANGED <<serverVars, browserVars>>

NextCrypto ==
  \/ \E iv \in ClientIVs : ClientEncrypt(iv)
  \/ \E salt \in Salts, iv \in IVs : ServerEncrypt(salt, iv)
  \/ ServerDecrypt
  \/ ClientDecrypt

SpecCrypto == InitCrypto /\ [][NextCrypto]_vars

(* The create and view flows of the browser against the handlers *)

\* the server takes the next API request off the wire
ServePost(p, env, id) ==
  /\ PostsTaken < Len(ApiCalls("POST"))
  /\ SerialPost(p, env, ApiCalls("POST")[PostsTaken + 1].body, id)

ServeGet(g) ==
  /\ GetsTaken < Len(ApiCalls("GET"))
  /\ SerialGet(g, ApiCalls("GET")[GetsTaken + 1].pathname[3], TRUE)

\* what the user of the flows types and chooses, and the iv drawn for it
TypedSecrets == {"", "hunter2"}
ChosenExpirations == {3600}
FlowIVs == {"n1"}

NextClient ==
  \/ \E secret \in TypedSecrets, expiresIn \in ChosenExpirations : FormSubmit(secret, expiresIn)
  \/ \E key \in ClientKeys, iv \in FlowIVs : FormEncrypt(key, iv)
  \/ FormReceive
  \/ FormFetchFails
  \/ FormReset
  \/ \E url \in Links : ViewOpen(url)
  \/ ViewMount
  \/ ViewTimer
  \/ ViewCountdown
  \/ ViewReveal
  \/ ViewReceive
  \/ ViewFetchFails
  \/ \E p \in 1..MaxPosts, env \in CoreEnvs, id \in SerialIds : ServePost(p, env, id)
  \/ \E p \in 1..MaxPosts, salt \in Salts, iv \in IVs : PostEncrypt(p, salt, iv)
  \/ \E p \in 1..MaxPosts, storeOk \in BOOLEAN : PostPut(p, storeOk)
  \/ \E p \in 1..MaxPosts : PostRespond(p)
  \/ \E g \in 1..MaxGets : ServeGet(g)
  \/ \E g \in 1..MaxGets, storeOk \in BOOLEAN, gone \in BOOLEAN : GetLookup(g, storeOk, gone)
  \/ \E g \in 1..MaxGets, storeOk \in BOOLEAN : GetDelete(g, storeOk)
  \/ \E g \in 1..MaxGets, env \in CoreEnvs : GetDecrypt(g, env.ENCRYPTION_KEY)

SpecClient == Init /\ [][NextClient]_vars

----------------------------------------------------------------------------
(* Properties *)

\* what the claims expect of the TTL of a request whose expiresIn is an
\* integer e (or is omitted), on the numbers of the documentation
ExpectedTtl(e) ==
  IF e.t = "undefined" THEN 86400
  ELSE IF e.n < 60 THEN 60
  ELSE IF e.n > 604800 THEN 604800
  ELSE e.n
IntegerOrOmitted(e) == e.t = "undefined" \/ IsNum(e)
\* the handler got past its binding checks
Configured(env) == env.SECRETS /\ env.ENCRYPTION_KEY # NoKey
\* seconds between the put of the record a lookup met and the lookup
Elapsed(lk) == lk.at - lk.rec.putAt

\* C1: under every interleaving of GET handlers, at most one of them answers
\* 200 with the record a given POST stored (the others answer 404).
C1_AtMostOnce == \A p \in 1..MaxPosts : seen[p] <= 1

\* C2: once a GET for an id has answered 200, a GET for that id that starts
\* after that response never delivers again: it answers 404 (or fails with
\* the store), whatever happened in between.
C2_OneTimeRead ==
  last.op = "GET" /\ last.after200 => last.resp.status # 200

\* C3: a GET removes the record only when it answers 200 with the data; a GET
\* that ends in an error response leaves the record in the store.
C3_RemovedOnlyWhenDelivered ==
  last.op = "GET" /\ last.fx.removed => last.resp.status = 200

\* C4: a lookup of a record put with TTL T finds the record when strictly less
\* than T seconds have passed since the put, and the GET is then not a 404;
\* when strictly more than T seconds have passed it finds nothing and the GET
\* answers 404.
C4_ExpiryBoundary ==
  lookup.present /\ IntegerOrOmitted(lookup.rec.req) =>
    /\ Elapsed(lookup) < ExpectedTtl(lookup.rec.req)
         => lookup.found /\ last.resp.status # 404
    /\ Elapsed(lookup) > ExpectedTtl(lookup.rec.req)
         => ~lookup.found /\ last.op = "GET" /\ last.resp.status = 404

\* a lookup strictly before the expiry of a 60 second record found it ...
C4_FoundBeforeExpiry ==
  lookup.present /\ lookup.rec.req = Num(1) /\ Elapsed(lookup) = 59 /\ lookup.found
\* ... and a GET after its expiry met the record still held and answered 404
C4_Witness ==
  /\ lookup.present /\ lookup.rec.req = Num(1) /\ Elapsed(lookup) = 61
  /\ last.op = "GET" /\ last.resp.status = 404

\* C5: for an integer expiresIn e the TTL handed to the store is
\* max(60, min(604800, e)), it is 86400 when expiresIn is omitted, and no such
\* request is rejected for its expiresIn.
TtlAsExpected(body, fx) ==
  fx.puts = 1 /\ IntegerOrOmitted(body.expiresIn)
    => fx.ttl = Num(ExpectedTtl(body.expiresIn))
C5_TtlClamping ==
  /\ \A p \in 1..MaxPosts : TtlAsExpected(posts[p].body, posts[p].fx)
  /\ last.op = "POST" => TtlAsExpected(last.body, last.fx)
  /\ \A k \in DOMAIN store :
       IntegerOrOmitted(store[k].req) => store[k].ttl = Num(ExpectedTtl(store[k].req))
  /\ /\ last.op = "POST" /\ Configured(last.env) /\ last.body.kind = "object"
     /\ last.body.encryptedData = Str("x") /\ IntegerOrOmitted(last.body.expiresIn)
     => last.resp.status \notin {400, 413}

\* a request with expiresIn 0 was answered 201 after a put with TTL 60
C5_Witness ==
  /\ last.op = "POST" /\ last.body.expiresIn = Num(0)
  /\ last.resp.status = 201 /\ last.fx.ttl = Num(60)

\* C6: every record in the store carries a TTL within [60, 604800], whatever
\* JSON value the request had in expiresIn.
C6_StoredTtlInRange ==
  \A k \in DOMAIN store :
    /\ IsNum(store[k].ttl)
    /\ store[k].ttl.n >= 60
    /\ store[k].ttl.n <= 604800

\* C7: a request whose encryptedData is missing, empty or not a string is
\* answered 400, whatever its size; a longer string than 102400 is answered
\* 413; a string of 1 to 102400 characters is not rejected.
C7_ValidationOrder ==
  last.op = "POST" /\ Configured(last.env) /\ last.body.kind = "object" =>
    LET d == last.body.encryptedData
    IN  /\ d.t # "string" \/ d.s = ""
          => /\ last.resp.status = 400
             /\ last.resp.error = "Missing or invalid encryptedData"
        /\ d.t = "string" /\ d.s # "" /\ StringLength[d.s] > 102400
          => /\ last.resp.status = 413
             /\ last.resp.error = "Payload too large"
        /\ d.t = "string" /\ d.s # "" /\ StringLength[d.s] <= 102400
          => last.resp.status \notin {400, 413}

\* a request with exactly 102400 characters of encryptedData was answered 201
C7_Witness ==
  /\ last.op = "POST" /\ last.body.encryptedData = Str(S100K)
  /\ last.resp.status = 201

\* C8: a request whose body is not JSON, is JSON null or has no string
\* encryptedData is answered 400, never 500.
C8_MalformedIs400 ==
  /\ last.op = "POST" /\ Configured(last.env)
  /\ \/ last.body.kind \in {"invalid", "null"}
     \/ last.body.encryptedData.t # "string"
  => last.resp.status = 400

\* C9: a POST that answers 400, 413 or 500 has written nothing to the store.
C9_ErrorLeavesStore ==
  last.op = "POST" /\ last.resp.status \in {400, 413, 500} => ~last.fx.written

\* C10: a GET whose id is empty, shorter than 6 or longer than 12 is answered
\* 400 without any store get or delete; an id of 6 to 12 characters passes the
\* check and the handler calls the store's get.
C10_IdShapeGate ==
  /\ last.op = "GET" =>
       IF StringLength[last.id] \in 6..12
         THEN /\ last.resp.status # 400
              /\ last.env.SECRETS => last.fx.gets = 1
         ELSE /\ last.resp.status = 400
              /\ last.resp.error = "Invalid secret ID"
              /\ last.fx.gets = 0 /\ last.fx.deletes = 0
  /\ \A g \in 1..MaxGets :
       gets[g].pc \in {"get", "delete", "decrypt"} => StringLength[gets[g].id] \in 6..12

\* a GET with an id of 12 characters looked the id up and answered 404
C10_Witness ==
  /\ last.op = "GET" /\ last.id = "abcdefghijkl"
  /\ last.fx.gets = 1 /\ last.resp.status = 404

\* the one response of a lookup that met nothing
NotFoundResponse == ErrorResponse(404, "Secret not found or already viewed")
\* the three causes of an absent record, at a lookup lk: no record was ever
\* put under the id; the id was delivered and nothing undelivered is held
\* under it; the record held under it has outlived its TTL
NeverExisted(lk) == lk.id \notin MintIds
AlreadyDelivered(lk) ==
  /\ lk.id \in MintIds /\ hist[lk.id].ok200
  /\ lk.present => seen[lk.rec.rid] >= 1
HasExpired(lk) ==
  /\ lk.present /\ IntegerOrOmitted(lk.rec.req)
  /\ Elapsed(lk) > ExpectedTtl(lk.rec.req)

\* C11: a GET for a well-shaped id whose record never existed, was already
\* delivered or has expired answers with one and the same response, status
\* and body, whichever of the three causes applies.
C11_NotFoundIndistinguishable ==
  /\ lookup.id # ""
  /\ NeverExisted(lookup) \/ AlreadyDelivered(lookup) \/ HasExpired(lookup)
  => last.op = "GET" /\ last.resp = NotFoundResponse

\* a GET for an id that was delivered before answered the not-found response
C11_Witness ==
  /\ lookup.id # "" /\ AlreadyDelivered(lookup)
  /\ last.op = "GET" /\ last.resp = NotFoundResponse

\* C12: the body of every error response is a fixed message of its category:
\* it carries the error text alone, with nothing of the server's state
\* (such as the names of the keys of locals) interpolated into it.
C12_NoDiagnosticDetail ==
  last.op # "none" /\ last.resp.status >= 400 =>
    /\ last.resp.debug = ""
    /\ last.resp.id = "" /\ last.resp.encryptedData = ""

\* the blob a GET handler read had been altered
ReadAltered == last.op = "GET" /\ last.stored # NoStored /\ ~Intact(last.stored.data)
\* ... so that it is malformed or truncated / so that its tag fails
Malformed(blob) == blob[1] # "base64" \/ blob[2].ct.tag = "short"
TagFails(blob) == ~Intact(blob) /\ ~Malformed(blob)

\* C13: a GET whose stored blob is malformed or truncated and a GET whose
\* blob fails its authentication tag answer the same response, status and
\* message: 500 'Failed to retrieve secret'.
C13_GenericDecryptionFailure ==
  ReadAltered =>
    /\ Malformed(last.stored.data) => last.resp = GetCatch
    /\ TagFails(last.stored.data) => last.resp = GetCatch

\* a GET got as far as decrypting a blob that was not base64 and answered
\* the generic response
C13_Witness ==
  /\ ReadAltered /\ last.stored.data[1] = "garbage"
  /\ last.fx.removed /\ last.resp = GetCatch

\* C15: a GET of a record whose blob had a bit of its salt, iv or ciphertext
\* and tag flipped ends in the decryption error response, and no 200 carries
\* other data than the encryptedData submitted when the record was created.
C15_TamperDetection ==
  /\ ReadAltered => last.resp.status = 500
  /\ last.op = "GET" /\ last.resp.status = 200
       => last.resp.encryptedData = made[last.rid].d

\* a GET decrypted a blob with a flipped ciphertext bit and answered 500
C15_Witness ==
  /\ ReadAltered /\ last.stored.data[2].ct.tag = "bad"
  /\ last.fx.removed /\ last.resp.status = 500

\* C16: a 200 for an id carries the encryptedData of every POST that answered
\* 201 with that id and whose record no GET has delivered yet: the first
\* retrieval after a creation returns what that creation submitted.
C16_EndToEndDelivery ==
  last.op = "GET" /\ last.resp.status = 200 =>
    \A p \in 1..MaxPosts :
      made[p].returned /\ made[p].id = last.id /\ seen[p] = 0
        => last.resp.encryptedData = made[p].d

\* C17: no step changes the value or the TTL held under a key that stays in
\* the store: a record is written once and after that only removed.
C17_RecordsImmutable ==
  [][\A k \in DOMAIN store :
       k \in DOMAIN store'
         => store'[k].value = store[k].value /\ store'[k].ttl = store[k].ttl]_vars

\* the states of the record of an id: held and readable; delivered by a 200;
\* held past its TTL
Pending(id) ==
  /\ Key(id) \in DOMAIN store
  /\ ~Expired(store[Key(id)], now, TRUE)
Delivered(id) == hist[id].ok200
PastTtl(id) ==
  /\ Key(id) \in DOMAIN store
  /\ Expired(store[Key(id)], now, FALSE)

\* C18: no step takes an id that is Delivered or Expired back to Pending, a
\* Delivered id stays Delivered, and an Expired id does not become Delivered.
C18_Irreversible ==
  [][\A id \in MintIds :
       /\ Delivered(id) => Delivered(id)' /\ ~Pending(id)'
       /\ PastTtl(id) /\ ~Delivered(id) => ~Pending(id)' /\ ~Delivered(id)']_vars

\* C19: a GET invocation calls the store's get at most once and its delete
\* at most once, on every path, and its delete touches no key but
\* "secret:" + id.
C19_NoRetry ==
  /\ \A g \in 1..MaxGets : gets[g].fx.gets <= 1 /\ gets[g].fx.deletes <= 1
  /\ last.op = "GET" =>
       /\ last.fx.gets <= 1 /\ last.fx.deletes <= 1
       /\ last.fx.deletes = 1 => last.fx.gets = 1
       /\ last.fx.removed => Key(last.id) \notin DOMAIN store

\* a GET whose delete failed answered 500 after one get and one delete
C19_Witness ==
  /\ last.op = "GET" /\ last.resp.status = 500
  /\ last.fx.gets = 1 /\ last.fx.deletes = 1 /\ ~last.fx.removed

\* C14: a secret that went through encrypt under k, serverEncrypt under m,
\* serverDecrypt under m and decrypt under k comes out as it went in.
C14_RoundTrip ==
  rt.stage = "decrypted" => rt.out = Return(rt.p)

\* the text k is readable in a request: as a path segment, in the query, or
\* as a field of the JSON body
Carries(r, k) ==
  \/ \E i \in DOMAIN r.pathname : r.pathname[i] = k
  \/ \E i \in DOMAIN r.search : r.search[i] = k
  \/ r.body.kind = "object"
       /\ (r.body.encryptedData = Str(k) \/ r.body.expiresIn = Str(k))
\* the text k is what the stored envelope encrypts
RecordHolds(rec, k) == JSONparse(rec.value).data[2].ct.pt = TextEncode(k)

\* C20: no request the browser has sent carries a client key, no stored record
\* holds one, and the share link shows the key in its hash and nowhere else.
C20_KeyNeverReachesServer ==
  \A k \in ClientKeys :
    /\ \A i \in DOMAIN wire : ~Carries(wire[i], k)
    /\ \A key \in DOMAIN store : ~RecordHolds(store[key], k)
    /\ form.state = "success" =>
         /\ form.shareUrl.hash = <<"#", form.clientKey>>
         /\ \A i \in DOMAIN form.shareUrl.pathname : form.shareUrl.pathname[i] # k
         /\ \A i \in DOMAIN form.shareUrl.search : form.shareUrl.search[i] # k

\* both flows ran through: the secret was created, its share link opened with
\* the key in the hash, and the secret revealed
C20_Witness ==
  /\ view.state = "revealed" /\ view.secret = "hunter2"
  /\ view.location.hash = <<"#", form.clientKey>>
  /\ Len(ApiCalls("POST")) >= 1 /\ Len(ApiCalls("GET")) = 1

\* C21: a POST that meets a missing store binding or a missing master key is
\* answered 500 with a configuration error, whatever its body is (also one
\* that is not JSON), with no id minted and no store call.
C21_ConfigurationErrors ==
  last.op = "POST" /\ ~Configured(last.env) =>
    /\ last.resp.status = 500
    /\ last.resp.error \in
         {"Server configuration error: KV not bound. Debug: locals keys=",
          "Server configuration error: encryption key not set"}
    /\ last.id = "" /\ last.resp.id = ""
    /\ last.fx = NoFx /\ last.stored = NoStored

\* a body that is not JSON met a missing master key and got the configuration
\* error, not the error of the parse
C21_Witness ==
  /\ last.op = "POST" /\ last.body.kind = "invalid"
  /\ last.env.SECRETS /\ last.env.ENCRYPTION_KEY = NoKey
  /\ last.resp.error = "Server configuration error: encryption key not set"

\* C22: the expiresAt of a 201 is the createdAt of the record it stored plus
\* the TTL of the put, in milliseconds.
C22_ExpiresAtFromCreatedAt ==
  last.op = "POST" /\ last.resp.status = 201 =>
    last.resp.expiresAt = last.stored.createdAt + last.fx.ttl.n * 1000

\* C25: a 201 comes after one successful put under "secret:" + id with the
\* clamped TTL, and its id has 8 characters.
C25_CreatedMeansWritten ==
  last.op = "POST" /\ last.resp.status = 201 =>
    /\ last.fx.puts = 1 /\ last.fx.written
    /\ made[last.rid].id = last.resp.id
    /\ Key(last.resp.id) \in DOMAIN store
    /\ store[Key(last.resp.id)].rid = last.rid
    /\ store[Key(last.resp.id)].ttl = last.fx.ttl
    /\ IntegerOrOmitted(last.body.expiresIn)
         => last.fx.ttl = Num(ExpectedTtl(last.body.expiresIn))
    /\ StringLength[last.resp.id] = 8

\* a request with expiresIn 999999999 was answered 201 after a put with the
\* largest TTL
C25_Witness ==
  /\ last.op = "POST" /\ last.resp.status = 201
  /\ last.body.expiresIn = Num(999999999) /\ last.fx.ttl = Num(604800)
  /\ Key(last.resp.id) \in DOMAIN store

\* C24: once the racing GET handlers have all answered, a record that a
\* creation put under an id of its own and that is no longer in the store was
\* delivered by a 200.
C24_NoLossByRace ==
  NoGetInFlight =>
    \A p \in 1..MaxPosts :
      /\ made[p].id # ""
      /\ \A q \in 1..MaxPosts : q # p => made[q].id # made[p].id
      /\ Key(made[p].id) \notin DOMAIN store
      => seen[p] >= 1

\* two GET handlers raced for one record: each of them read it before either
\* deleted it, and both have answered
C24_Witness ==
  /\ NoGetInFlight /\ \A g \in 1..MaxGets : gets[g].pc = "done"
  /\ \E p \in 1..MaxPosts :
       /\ made[p].id # "" /\ Key(made[p].id) \notin DOMAIN store
       /\ seen[p] = 2

\* C26: a step of a GET handler leaves every record unchanged but the one
\* under "secret:" + id, which only its delete call removes; the lookup reads
\* the record under that key; a GET that answers 400 or 404 called no delete.
C26_RetrievalFrame ==
  /\ [](/\ lookup.id # "" /\ lookup.present =>
             Key(lookup.id) \in DOMAIN store /\ store[Key(lookup.id)] = lookup.rec
        /\ last.op = "GET" /\ last.resp.status \in {400, 404} =>
             last.fx.deletes = 0 /\ ~last.fx.removed /\ last.fx.puts = 0)
  /\ [][posts' = posts =>
          \A k \in DOMAIN store :
            \/ k \in DOMAIN store' /\ store'[k] = store[k]
            \/ \E g \in 1..MaxGets :
                 /\ gets[g].pc = "delete" /\ gets'[g].pc = "decrypt"
                 /\ k = Key(gets[g].id)]_vars

\* a GET removed the record of its id while a record of another id was held
C26_Witness ==
  /\ \E g \in 1..MaxGets : gets[g].pc = "decrypt" /\ gets[g].fx.removed
  /\ \E k \in DOMAIN store : TRUE

\* C27: every response of the GET handler has a status in {200, 400, 404,
\* 500}, every response of the POST handler one in {201, 400, 413, 500}, and
\* an invocation answers once: a response is sent exactly in the step in
\* which the invocation ends, and an ended invocation stays ended.
C27_OneResponseInSet ==
  /\ [](/\ last.op = "GET" => last.resp.status \in {200, 400, 404, 500}
        /\ last.op = "POST" => last.resp.status \in {201, 400, 413, 500})
  /\ [][/\ \A g \in 1..MaxGets : gets[g].pc = "done" => gets'[g].pc = "done"
        /\ \A p \in 1..MaxPosts : posts[p].pc = "done" => posts'[p].pc = "done"
        /\ last'.op = "GET" <=>
             Cardinality({g \in 1..MaxGets : gets[g].pc # "done" /\ gets'[g].pc = "done"}) = 1
        /\ last'.op = "POST" <=>
             Cardinality({p \in 1..MaxPosts : posts[p].pc # "done" /\ posts'[p].pc = "done"}) = 1
        /\ last'.op = "none" <=> (\A g \in 1..MaxGets : (gets[g].pc = "done") = (gets'[g].pc = "done"))
                               /\ (\A p \in 1..MaxPosts : (posts[p].pc = "done") = (posts'[p].pc = "done"))]_vars

\* a body that is not JSON made request.json() throw, and the POST answered 500
C27_Witness ==
  /\ last.op = "POST" /\ last.body.kind = "invalid" /\ Configured(last.env)
  /\ last.resp.status = 500

\* C23: the key generateKey returned has 128 bits, and a share link whose
\* fragment is a base64url key of 128 bits is not turned away as invalid.
C23_KeyIs128Bits ==
  /\ form.clientKey # "" => KeyByteLength[form.clientKey] * 8 = 128
  /\ /\ view.state # "unmounted" /\ view.location.hash = <<"#", Key16Bytes>>
     => view.state # "invalid_key"

\* the fragment of the address is missing or is no base64url text of 32 bytes
NoValidKey(url) ==
  \/ Len(url.hash) < 2
  \/ KeyByteLength[url.hash[2]] # 32
TerminalViewStates == {"revealed", "not_found", "error", "invalid_key"}

\* C28: the GET of the secret is sent only in a step from 'ready' with the
\* countdown at 0 to 'revealing', after the interval has fired 3 times since
\* the mount; while the component loads or counts down it has sent none.
C28_NoEarlyBurn ==
  /\ [](/\ view.fetches >= 1 => view.ticks = 3 /\ view.countdown = 0
        /\ view.state = "loading" \/ view.countdown > 0 => view.fetches = 0
        /\ view.state # "unmounted" => view.countdown = 3 - view.ticks)
  /\ [][Len(ApiCalls("GET"))' > Len(ApiCalls("GET")) =>
          /\ view.state = "ready" /\ view.countdown = 0
          /\ view.ticks = REVEAL_DELAY \div 1000
          /\ view'.state = "revealing"
          /\ wire' = Append(wire, RevealRequest(view.secretId))]_vars

\* the reveal was triggered after three ticks and the GET is on its way
C28_Witness ==
  /\ view.state = "revealing" /\ view.ticks = 3 /\ view.fetches = 1
  /\ Len(ApiCalls("GET")) = 1

\* C29: a mount sends at most one GET; in 'revealing' and in the states
\* 'revealed', 'not_found', 'error' and 'invalid_key' no step sends another,
\* and those four states are left only by opening a page anew.
C29_OneRetrievalPerMount ==
  /\ [](view.fetches <= 1)
  /\ [][/\ view.state \in TerminalViewStates \cup {"revealing"}
             => \/ ApiCalls("GET")' = ApiCalls("GET")
                \/ view'.state = "loading" /\ view'.fetches = 0
        /\ view.state \in TerminalViewStates
             => \/ view' = view
                \/ view'.state = "loading" /\ view'.fetches = 0]_vars

\* a second mount for a secret the first mount consumed met 404 after its
\* one GET
C29_Witness ==
  /\ view.state = "not_found" /\ view.fetches = 1
  /\ Len(ApiCalls("GET")) = 2

Submitting == form.state \in {"encrypting", "sending"}
\* the response in `last` answers the POST the form sent last
AnswersSubmit ==
  /\ last.op = "POST"
  /\ Cardinality({p \in 1..MaxPosts : posts[p].pc = "done"}) = Len(ApiCalls("POST"))
  /\ last.body = CreateRequest(form.encryptedData, form.expiresIn).body

\* C31: the form enters 'success' only from 'sending', on an ok response to
\* the POST of this submit, and its share link is /view/<id of that response>
\* with the key that encrypted the submitted secret in the hash; a failed
\* encryption, a rejected fetch or a response that is not ok ends in 'error';
\* outside 'success' no share link is set; during 'encrypting' and 'sending'
\* the only POST sent is the one of the step from 'encrypting' to 'sending'.
C31_SuccessOnlyAfterOk ==
  /\ [](/\ form.state # "success" => form.shareUrl = NoUrl
        /\ form.state = "error" => form.error # ""
        /\ form.state = "success" =>
             /\ form.shareUrl.pathname[1] = "view" /\ form.shareUrl.pathname[2] # ""
             /\ form.shareUrl.hash = <<"#", form.clientKey>>
             /\ \E iv \in ClientIVs :
                  form.encryptedData = encrypt(form.secret, form.clientKey, iv).v
             /\ \E p \in 1..MaxPosts :
                  /\ made[p].returned /\ made[p].id = form.shareUrl.pathname[2]
                  /\ made[p].d = form.encryptedData)
  /\ [][/\ form'.state = "success" /\ form.state # "success" =>
             /\ form.state = "sending" /\ AnswersSubmit
             /\ last.resp.status \in 200..299
             /\ form'.shareUrl.pathname = <<"view", last.resp.id>>
             /\ form'.clientKey = form.clientKey
             /\ form'.encryptedData = form.encryptedData /\ form'.secret = form.secret
        /\ Submitting /\ form'.state # form.state =>
             \/ form.state = "encrypting" /\ form'.state \in {"sending", "error"}
             \/ form.state = "sending" /\ form'.state \in {"success", "error"}
        /\ form.state = "sending" /\ form'.state # form.state /\ ~Ok(last.resp) =>
             form'.state = "error"
        /\ Submitting =>
             \/ ApiCalls("POST")' = ApiCalls("POST")
             \/ /\ form.state = "encrypting" /\ form'.state = "sending"
                /\ ApiCalls("POST")' =
                     Append(ApiCalls("POST"),
                            CreateRequest(form'.encryptedData, form.expiresIn))]_vars

\* after a first submit that the server answered 500, the second one was
\* created and the form shows its link
C31_Witness ==
  /\ form.state = "success" /\ Len(ApiCalls("POST")) = 2
  /\ \E p \in 1..MaxPosts : posts[p].pc = "done" /\ ~made[p].returned
  /\ Key(form.shareUrl.pathname[2]) \in DOMAIN store

====
